---- MODULE Spec2Model ----
(***************************************************************************)
(* Model of sentiment_dashboard.py: a Streamlit script that loads a CSV of *)
(* posts (load_data), filters it by three multiselect widgets and renders  *)
(* three metrics and eight charts.  Streamlit re-executes the whole script *)
(* on every widget change; load_data is memoised by st.cache_data, so the  *)
(* loaded dataset df is computed once and reused by every rerun.           *)
(*                                                                         *)
(* Numbers in CSV cells are fixed-point with one decimal digit: the        *)
(* integer 57 stands for 5.7.  After astype(int) Hour is a whole number.   *)
(* Texts (Hashtags) are tuples of one-character strings.                   *)
(***************************************************************************)
EXTENDS Integers, Sequences, FiniteSets, TLC

VARIABLES csv, pc, df, errors, selected_platforms, selected_sentiments,
          selected_countries, widgets, filtered_df, metrics, charts,
          hashtag_counts, footer

vars == <<csv, pc, df, errors, selected_platforms, selected_sentiments,
          selected_countries, widgets, filtered_df, metrics, charts,
          hashtag_counts, footer>>

\* ------------------------------------------------------------ bounds
MaxRows == 2
MaxLoadRows == 2
MaxHashRows == 2

\* ------------------------------------------------------------ input cells
\* A missing categorical cell (pandas NaN).
NA == "<NA>"

Num(v) == [k |-> "num", v |-> v]
BadCell == [k |-> "bad", v |-> 0]
NaCell == [k |-> "na", v |-> 0]
InfCell == [k |-> "inf", v |-> 0]

Txt(t) == [na |-> FALSE, text |-> t]
NaTxt == [na |-> TRUE, text |-> <<>>]

\* ------------------------------------------------------------ load_data
\* Series.astype(str) on a text column: NaN becomes the string "nan".
AsStr(c) == IF c = NA THEN "nan" ELSE c

AsStrText(c) == IF c.na THEN <<"n", "a", "n">> ELSE c.text

\* pd.to_numeric(errors='coerce') on one cell: a float, NaN when the cell is
\* missing or does not parse.
ToNumeric(c) ==
    CASE c.k = "num" -> [f |-> "fin", v |-> c.v]
      [] c.k = "inf" -> [f |-> "inf", v |-> 0]
      [] OTHER -> [f |-> "nan", v |-> 0]

\* Variant: fillna(-1).
FillNa0_minus1(x) == IF x.f = "nan" THEN [f |-> "fin", v |-> -10] ELSE x

FillNa0(x) == IF x.f = "nan" THEN [f |-> "fin", v |-> 0] ELSE x

\* .astype(int) of a finite float truncates toward zero.
AsTypeInt(x) == IF x.v >= 0 THEN x.v \div 10 ELSE -((-x.v) \div 10)

\* astype(int) raises on a non-finite value.
CoerceRaises(rows) == \E i \in 1..Len(rows) : ToNumeric(rows[i].Hour).f = "inf"

CoerceRow(r, i) ==
    [idx |-> i,
     Sentiment |-> AsStr(r.Sentiment),
     Platform |-> AsStr(r.Platform),
     Country |-> AsStr(r.Country),
     Hashtags |-> AsStrText(r.Hashtags),
     Hour |-> AsTypeInt(FillNa0(ToNumeric(r.Hour))),
     Likes |-> FillNa0(ToNumeric(r.Likes)),
     Retweets |-> FillNa0(ToNumeric(r.Retweets))]

NoDataset == [none |-> TRUE, error |-> TRUE, rows |-> <<>>]

\* Variant: the except branch returns None without calling st.error.
load_data_silent(file) ==
    IF file.kind # "ok" \/ CoerceRaises(file.rows)
    THEN [none |-> TRUE, error |-> FALSE, rows |-> <<>>]
    ELSE [none |-> FALSE, error |-> FALSE,
          rows |-> [i \in 1..Len(file.rows) |-> CoerceRow(file.rows[i], i)]]

\* load_data: the try body, and the except branch (st.error, return None).
load_data(file) ==
    IF file.kind # "ok" \/ CoerceRaises(file.rows)
    THEN NoDataset
    ELSE [none |-> FALSE, error |-> FALSE,
          rows |-> [i \in 1..Len(file.rows) |-> CoerceRow(file.rows[i], i)]]

\* ------------------------------------------------------------ filters
Unique(rows, field) == {rows[i][field] : i \in 1..Len(rows)}

\* frame[frame[field].isin(sel)]
Isin(rows, field, sel) ==
    LET Keep(r) == r[field] \in sel IN SelectSeq(rows, Keep)

\* Variant: the country mask is taken from the Platform column.
filtered_wrong_column(rows, sp, ss, sc) ==
    LET f0 == rows
        f1 == IF sp # {} THEN Isin(f0, "Platform", sp) ELSE f0
        f2 == IF ss # {} THEN Isin(f1, "Sentiment", ss) ELSE f1
        f3 == IF sc # {} THEN Isin(f2, "Platform", sc) ELSE f2
    IN f3

\* Variant: the masks are applied without the "if selected" guards.
filtered_no_elide(rows, sp, ss, sc) ==
    Isin(Isin(Isin(rows, "Platform", sp), "Sentiment", ss), "Country", sc)

\* Variant: every step filters df instead of filtered_df, so a later filter
\* overwrites the earlier ones.
filtered_from_df(rows, sp, ss, sc) ==
    LET f0 == rows
        f1 == IF sp # {} THEN Isin(rows, "Platform", sp) ELSE f0
        f2 == IF ss # {} THEN Isin(rows, "Sentiment", ss) ELSE f1
        f3 == IF sc # {} THEN Isin(rows, "Country", sc) ELSE f2
    IN f3

filtered(rows, sp, ss, sc) ==
    LET f0 == rows
        f1 == IF sp # {} THEN Isin(f0, "Platform", sp) ELSE f0
        f2 == IF ss # {} THEN Isin(f1, "Sentiment", ss) ELSE f1
        f3 == IF sc # {} THEN Isin(f2, "Country", sc) ELSE f2
    IN f3

\* ------------------------------------------------------------ metrics
RECURSIVE SumV(_)
SumV(xs) == IF xs = <<>> THEN 0 ELSE Head(xs).v + SumV(Tail(xs))

Column(rows, field) == [i \in 1..Len(rows) |-> rows[i][field]]

\* Series.mean(): NaN on an empty series, inf when a value is infinite,
\* otherwise the exact quotient num/den.
Mean(xs) ==
    IF xs = <<>> THEN [f |-> "nan", num |-> 0, den |-> 1]
    ELSE IF \E i \in 1..Len(xs) : xs[i].f = "inf"
         THEN [f |-> "inf", num |-> 0, den |-> 1]
         ELSE [f |-> "fin", num |-> SumV(xs), den |-> Len(xs)]

\* f"{x:.2f}": the text "nan" for NaN, "inf" for infinity, else the two-decimal
\* rendering of the quotient num/den (kept exact here).
Format2f(m) ==
    [text |-> IF m.f = "fin" THEN "number" ELSE m.f, num |-> m.num, den |-> m.den]

NoMetrics ==
    [shown |-> FALSE, total |-> 0,
     avg_likes |-> [text |-> "absent", num |-> 0, den |-> 1],
     avg_retweets |-> [text |-> "absent", num |-> 0, den |-> 1]]

Metrics(fdf) ==
    [shown |-> TRUE, total |-> Len(fdf),
     avg_likes |-> Format2f(Mean(Column(fdf, "Likes"))),
     avg_retweets |-> Format2f(Mean(Column(fdf, "Retweets")))]

\* ------------------------------------------------------------ aggregations
\* Series.value_counts(): count per distinct value.
value_counts(rows, field) ==
    [v \in Unique(rows, field) |->
        Cardinality({i \in 1..Len(rows) : rows[i][field] = v})]

\* groupby(['Platform','Sentiment']).size().unstack(fill_value=0)
platform_sentiment(rows) ==
    [p \in Unique(rows, "Platform"), s \in Unique(rows, "Sentiment") |->
        Cardinality({i \in 1..Len(rows) :
                        rows[i].Platform = p /\ rows[i].Sentiment = s})]

IsSpace(ch) == ch = " "

\* ' '.join(texts)
RECURSIVE Join(_)
Join(texts) ==
    IF texts = <<>> THEN <<>>
    ELSE IF Len(texts) = 1 THEN texts[1]
    ELSE texts[1] \o <<" ">> \o Join(Tail(texts))

\* str.split(): the maximal runs of non-whitespace characters.
RECURSIVE SplitAcc(_, _, _)
SplitAcc(s, cur, out) ==
    IF s = <<>> THEN (IF cur = <<>> THEN out ELSE Append(out, cur))
    ELSE IF IsSpace(Head(s))
         THEN SplitAcc(Tail(s), <<>>, IF cur = <<>> THEN out ELSE Append(out, cur))
         ELSE SplitAcc(Tail(s), Append(cur, Head(s)), out)

Split(s) == SplitAcc(s, <<>>, <<>>)

\* Hashtags are strings after load, so dropna() removes nothing.
hashtag_list(rows) == Split(Join(Column(rows, "Hashtags")))

\* Counter(list): a dict in insertion (first-seen) order, as <<key, count>> items.
CounterAdd(items, t) ==
    IF \E i \in 1..Len(items) : items[i][1] = t
    THEN [i \in 1..Len(items) |->
            IF items[i][1] = t THEN <<t, items[i][2] + 1>> ELSE items[i]]
    ELSE Append(items, <<t, 1>>)

RECURSIVE CounterOf(_, _)
CounterOf(list, items) ==
    IF list = <<>> THEN items ELSE CounterOf(Tail(list), CounterAdd(items, Head(list)))

Counter(list) == CounterOf(list, <<>>)

TopN == 10

\* Variant: an unstable sort that places an item before the items of equal count.
InsertPos_unstable(sorted, x) ==
    Cardinality({i \in 1..Len(sorted) : sorted[i][2] > x[2]})

\* Position at which a stable descending sort places item x among the already
\* sorted items: after every item whose count is at least x's.
InsertPos(sorted, x) ==
    Cardinality({i \in 1..Len(sorted) : sorted[i][2] >= x[2]})

InsertAt(s, k, x) == SubSeq(s, 1, k) \o <<x>> \o SubSeq(s, k + 1, Len(s))

RECURSIVE SortedDesc(_, _)
SortedDesc(items, sorted) ==
    IF items = <<>> THEN sorted
    ELSE SortedDesc(Tail(items),
                    InsertAt(sorted, InsertPos(sorted, Head(items)), Head(items)))

\* Counter.most_common(n) = sorted(items, key=count, reverse=True)[:n]
most_common(items, n) ==
    LET all == SortedDesc(items, <<>>)
    IN SubSeq(all, 1, IF Len(all) < n THEN Len(all) ELSE n)

\* ------------------------------------------------------------ charts
ChartNames ==
    <<"pie", "box", "platform_bar", "scatter", "hour_line", "countries_bar",
      "hashtags_bar", "heatmap">>

\* What one chart block does when it is executed: "figure", "warning", or
\* "raise" (px.scatter(size="Likes") rejects a negative marker size).
ChartOutcome(name, fdf) ==
    CASE name = "pie" ->
            IF DOMAIN value_counts(fdf, "Sentiment") # {} THEN "figure" ELSE "warning"
      [] name = "box" -> IF fdf # <<>> THEN "figure" ELSE "warning"
      [] name = "platform_bar" ->
            IF DOMAIN platform_sentiment(fdf) # {} THEN "figure" ELSE "warning"
      [] name = "scatter" ->
            IF fdf # <<>>
            THEN (IF \E i \in 1..Len(fdf) : fdf[i].Likes.f = "fin" /\ fdf[i].Likes.v < 0
                  THEN "raise" ELSE "figure")
            ELSE "warning"
      [] name = "hour_line" ->
            IF DOMAIN value_counts(fdf, "Hour") # {} THEN "figure" ELSE "warning"
      [] name = "countries_bar" ->
            IF DOMAIN value_counts(fdf, "Country") # {} THEN "figure" ELSE "warning"
      [] name = "hashtags_bar" ->
            IF most_common(Counter(hashtag_list(fdf)), TopN) # <<>>
            THEN "figure" ELSE "warning"
      [] name = "heatmap" -> IF fdf # <<>> THEN "figure" ELSE "warning"

\* The script runs the chart blocks top to bottom; an uncaught exception ends the
\* run, so the blocks after it are never executed ("none").
RECURSIVE RunCharts(_, _)
RunCharts(names, fdf) ==
    IF names = <<>> THEN <<>>
    ELSE LET o == ChartOutcome(Head(names), fdf)
         IN IF o = "raise"
            THEN <<"exception">> \o [i \in 1..(Len(names) - 1) |-> "none"]
            ELSE <<o>> \o RunCharts(Tail(names), fdf)

Charts(fdf) == RunCharts(ChartNames, fdf)

NoCharts == [i \in 1..Len(ChartNames) |-> "none"]

\* ------------------------------------------------------------ the script
ErrLoad == "Error loading data"
ErrEmpty == "Failed to load the dataset or dataset is empty."

\* if df is not None and not df.empty
Renders(d) == ~d.none /\ d.rows # <<>>

\* One execution of the script body after load_data, for the given widget
\* values.
Script(d, sp, ss, sc) ==
    LET fdf == filtered(d.rows, sp, ss, sc)
        ch == Charts(fdf)
    IN IF Renders(d)
       THEN [errors |-> <<>>, widgets |-> TRUE, filtered_df |-> fdf,
             metrics |-> Metrics(fdf), charts |-> ch,
             hashtag_counts |->
                 IF ch[7] = "none" THEN <<>>
                 ELSE most_common(Counter(hashtag_list(fdf)), TopN),
             footer |-> \A i \in 1..Len(ch) : ch[i] \in {"figure", "warning"}]
       ELSE [errors |-> (IF d.error THEN <<ErrLoad>> ELSE <<>>) \o <<ErrEmpty>>,
             widgets |-> FALSE, filtered_df |-> <<>>, metrics |-> NoMetrics,
             charts |-> NoCharts, hashtag_counts |-> <<>>, footer |-> FALSE]

Show(out) ==
    /\ errors' = out.errors
    /\ widgets' = out.widgets
    /\ filtered_df' = out.filtered_df
    /\ metrics' = out.metrics
    /\ charts' = out.charts
    /\ hashtag_counts' = out.hashtag_counts
    /\ footer' = out.footer

\* First execution: load_data runs (and is cached), no widget has a selection.
FirstRun ==
    /\ pc = "start"
    /\ pc' = "idle"
    /\ df' = load_data(csv)
    /\ selected_platforms' = {}
    /\ selected_sentiments' = {}
    /\ selected_countries' = {}
    /\ Show(Script(load_data(csv), {}, {}, {}))
    /\ UNCHANGED csv

\* The user changes a multiselect; Streamlit reruns the script with the cached
\* dataset and the widgets' current values.
SelectPlatforms ==
    /\ pc = "idle" /\ widgets
    /\ \E S \in SUBSET Unique(df.rows, "Platform") :
          /\ S # selected_platforms
          /\ selected_platforms' = S
          /\ Show(Script(df, S, selected_sentiments, selected_countries))
    /\ UNCHANGED <<csv, pc, df, selected_sentiments, selected_countries>>

SelectSentiments ==
    /\ pc = "idle" /\ widgets
    /\ \E S \in SUBSET Unique(df.rows, "Sentiment") :
          /\ S # selected_sentiments
          /\ selected_sentiments' = S
          /\ Show(Script(df, selected_platforms, S, selected_countries))
    /\ UNCHANGED <<csv, pc, df, selected_platforms, selected_countries>>

SelectCountries ==
    /\ pc = "idle" /\ widgets
    /\ \E S \in SUBSET Unique(df.rows, "Country") :
          /\ S # selected_countries
          /\ selected_countries' = S
          /\ Show(Script(df, selected_platforms, selected_sentiments, S))
    /\ UNCHANGED <<csv, pc, df, selected_platforms, selected_sentiments>>

Next == FirstRun \/ SelectPlatforms \/ SelectSentiments \/ SelectCountries

\* ------------------------------------------------------------ inputs
RECURSIVE SeqsUpTo(_, _)
SeqsUpTo(S, n) ==
    IF n = 0 THEN {<<>>}
    ELSE LET prev == SeqsUpTo(S, n - 1)
         IN prev \cup {Append(s, x) : s \in {p \in prev : Len(p) = n - 1}, x \in S}

File(rows) == [kind |-> "ok", rows |-> rows]
BadFile(kind) == [kind |-> kind, rows |-> <<>>]

\* Datasets that differ in their categories.
CatRows ==
    [Sentiment : {"Positive", "Negative"}, Platform : {"Twitter", "Instagram"},
     Country : {"USA", "India"}, Hashtags : {Txt(<<"#", "a">>)},
     Hour : {Num(50)}, Likes : {Num(100)}, Retweets : {Num(20)}]

\* Datasets that differ in their numeric cells.
NumRows ==
    [Sentiment : {"Positive"}, Platform : {"Twitter"}, Country : {"USA"},
     Hashtags : {Txt(<<"#", "a">>)},
     Hour : {Num(50), Num(57), Num(240), Num(-10), BadCell, NaCell, InfCell},
     Likes : {Num(100), Num(-10)},
     Retweets : {Num(20), BadCell}]

\* Datasets that differ in their hashtags.
HashPool ==
    {Txt(<<"a", " ", "b", " ", "c", " ", "d", " ", "e", " ", "f">>),
     Txt(<<"g", " ", "h", " ", "i", " ", "j", " ", "k", " ", "a">>),
     Txt(<<"l", " ", " ", "k", " ", "a">>),
     Txt(<<" ", "b">>),
     NaTxt}

HashRows ==
    [Sentiment : {"Positive"}, Platform : {"Twitter", "Instagram"},
     Country : {"USA"}, Hashtags : HashPool,
     Hour : {Num(50)}, Likes : {Num(100)}, Retweets : {Num(20)}]

InitState(files) ==
    /\ csv \in files
    /\ pc = "start"
    /\ df = NoDataset
    /\ errors = <<>>
    /\ selected_platforms = {}
    /\ selected_sentiments = {}
    /\ selected_countries = {}
    /\ widgets = FALSE
    /\ filtered_df = <<>>
    /\ metrics = NoMetrics
    /\ charts = NoCharts
    /\ hashtag_counts = <<>>
    /\ footer = FALSE

Init == InitState({File(r) : r \in SeqsUpTo(CatRows, MaxRows)} \cup {BadFile("missing")})

InitLoad ==
    InitState({File(r) : r \in SeqsUpTo(NumRows, MaxLoadRows)}
              \cup {BadFile("missing"), BadFile("malformed"), BadFile("nocolumn")})

InitHash == InitState({File(r) : r \in SeqsUpTo(HashRows, MaxHashRows)})

Spec == Init /\ [][Next]_vars
SpecLoad == InitLoad /\ [][Next]_vars
SpecHash == InitHash /\ [][Next]_vars

\* ------------------------------------------------------------ properties
Ran == pc = "idle"

Idx(rows) == {rows[i].idx : i \in 1..Len(rows)}

Range(q) == {q[i] : i \in 1..Len(q)}

\* The single-dimension filtered view of the loaded dataset.
Only(field, sel) == IF sel # {} THEN Isin(df.rows, field, sel) ELSE df.rows

Accepts(r) ==
    /\ selected_platforms # {} => r.Platform \in selected_platforms
    /\ selected_sentiments # {} => r.Sentiment \in selected_sentiments
    /\ selected_countries # {} => r.Country \in selected_countries

\* C1: after any sequence of selection changes the filtered view is exactly the
\* rows of the loaded dataset, in row order, whose Platform, Sentiment and
\* Country are members of the corresponding non-empty selections; it is a
\* function of the current selections only.
FilterContract ==
    (Ran /\ widgets) =>
        LET keep == {i \in 1..Len(df.rows) : Accepts(df.rows[i])}
        IN /\ Len(filtered_df) = Cardinality(keep)
           /\ \A k \in 1..Len(filtered_df) :
                 /\ filtered_df[k].idx \in keep
                 /\ filtered_df[k] = df.rows[filtered_df[k].idx]
                 /\ Accepts(filtered_df[k])
           /\ \A k, l \in 1..Len(filtered_df) :
                 k < l => filtered_df[k].idx < filtered_df[l].idx

FilterContractWitness ==
    /\ Ran /\ widgets
    /\ selected_platforms # {} /\ selected_countries # {}
    /\ Len(df.rows) = 2
    /\ Len(filtered_df) = 1
    /\ filtered_df[1].idx = 2

\* C2: an empty selection on a dimension leaves that dimension unrestricted:
\* the view is the one obtained by selecting every value of that dimension, its
\* count is the count of rows accepted by the other two selections, and with all
\* three selections empty the view is the whole dataset.
SelectAllInvariant ==
    (Ran /\ widgets) =>
        /\ selected_platforms = {} =>
              /\ filtered_df = filtered(df.rows, Unique(df.rows, "Platform"),
                                        selected_sentiments, selected_countries)
              /\ Idx(filtered_df) =
                    Idx(Only("Sentiment", selected_sentiments))
                        \cap Idx(Only("Country", selected_countries))
        /\ selected_sentiments = {} =>
              /\ filtered_df = filtered(df.rows, selected_platforms,
                                        Unique(df.rows, "Sentiment"), selected_countries)
              /\ Idx(filtered_df) =
                    Idx(Only("Platform", selected_platforms))
                        \cap Idx(Only("Country", selected_countries))
        /\ selected_countries = {} =>
              /\ filtered_df = filtered(df.rows, selected_platforms,
                                        selected_sentiments, Unique(df.rows, "Country"))
              /\ Idx(filtered_df) =
                    Idx(Only("Platform", selected_platforms))
                        \cap Idx(Only("Sentiment", selected_sentiments))
        /\ (selected_platforms = {} /\ selected_sentiments = {}
                /\ selected_countries = {}) => filtered_df = df.rows

SelectAllWitness ==
    /\ Ran /\ widgets
    /\ selected_platforms = {} /\ selected_sentiments # {} /\ selected_countries = {}
    /\ Cardinality(Unique(df.rows, "Platform")) = 2
    /\ Len(filtered_df) = 1

\* C3: filters compose by AND: the rows of the combined view are exactly the rows
\* present in every single-dimension view, and applying two dimensions in either
\* order gives the intersection of the two single-dimension views.
AndComposition ==
    (Ran /\ widgets) =>
        LET P == Only("Platform", selected_platforms)
            S == Only("Sentiment", selected_sentiments)
            C == Only("Country", selected_countries)
            Then(view, field, sel) == IF sel # {} THEN Isin(view, field, sel) ELSE view
        IN /\ Idx(filtered_df) = Idx(P) \cap Idx(S) \cap Idx(C)
           /\ selected_countries = {} => Idx(filtered_df) = Idx(P) \cap Idx(S)
           /\ selected_sentiments = {} => Idx(filtered_df) = Idx(P) \cap Idx(C)
           /\ selected_platforms = {} => Idx(filtered_df) = Idx(S) \cap Idx(C)
           /\ Then(P, "Sentiment", selected_sentiments)
                 = Then(S, "Platform", selected_platforms)
           /\ Then(P, "Country", selected_countries)
                 = Then(C, "Platform", selected_platforms)
           /\ Then(S, "Country", selected_countries)
                 = Then(C, "Sentiment", selected_sentiments)
           /\ Idx(Then(P, "Sentiment", selected_sentiments)) = Idx(P) \cap Idx(S)
           /\ Idx(Then(P, "Country", selected_countries)) = Idx(P) \cap Idx(C)
           /\ Idx(Then(S, "Country", selected_countries)) = Idx(S) \cap Idx(C)

AndCompositionWitness ==
    /\ Ran /\ widgets
    /\ selected_platforms # {} /\ selected_sentiments # {} /\ selected_countries = {}
    /\ Idx(filtered_df) # Idx(Only("Platform", selected_platforms))
    /\ Idx(filtered_df) # Idx(Only("Sentiment", selected_sentiments))

\* C4: when the dataset is non-empty and the selections leave no row, Avg Likes
\* and Avg Retweets show a guarded no-data indicator, not a formatted NaN.
EmptyViewShowsNoData ==
    (Ran /\ widgets /\ df.rows # <<>> /\ filtered_df = <<>>) =>
        /\ metrics.shown
        /\ metrics.avg_likes.text \notin {"nan", "number"}
        /\ metrics.avg_retweets.text \notin {"nan", "number"}

\* C5: a CSV with headers and no data rows loads without being treated as a
\* failure, and the dashboard is rendered with its three metrics.
EmptyCsvRendersDashboard ==
    (Ran /\ csv.kind = "ok" /\ csv.rows = <<>>) =>
        /\ ~df.none
        /\ errors = <<>>
        /\ widgets
        /\ metrics.shown

\* A read failure: the file is missing or malformed, a required column is
\* absent, or the integer conversion of Hour raises.
ReadFails ==
    \/ csv.kind # "ok"
    \/ \E i \in 1..Len(csv.rows) : csv.rows[i].Hour.k = "inf"

\* C6: on any read failure an error is shown, load_data returns no dataset and
\* no part of the dashboard (filters, metrics, charts, footer) is rendered.
LoadFailureNoDashboard ==
    (Ran /\ ReadFails) =>
        /\ df.none
        /\ ErrLoad \in Range(errors)
        /\ ~widgets
        /\ ~metrics.shown
        /\ \A i \in 1..Len(charts) : charts[i] = "none"
        /\ filtered_df = <<>>
        /\ ~footer

LoadFailureWitness ==
    /\ Ran /\ csv.kind = "ok" /\ Len(csv.rows) = 2
    /\ csv.rows[2].Hour.k = "inf"
    /\ df.none

Kept(cell, loaded) ==
    /\ cell.k \in {"bad", "na"} => loaded = 0
    /\ cell.k = "num" => loaded = cell.v

Occurrences(list, t) == Cardinality({i \in 1..Len(list) : list[i] = t})

FirstSeen(list, t) ==
    CHOOSE i \in 1..Len(list) : list[i] = t /\ \A j \in 1..(i - 1) : list[j] # t

\* a ranks before b: more occurrences, or as many and first seen earlier.
Outranks(list, a, b) ==
    \/ Occurrences(list, a) > Occurrences(list, b)
    \/ /\ Occurrences(list, a) = Occurrences(list, b)
       /\ FirstSeen(list, a) < FirstSeen(list, b)

\* C8: the hashtag ranking lists at most 10 distinct whitespace-separated tokens
\* of the filtered records' Hashtags, each with its exact number of occurrences,
\* by count descending; among equal counts the token first seen earlier ranks
\* higher, also at the cut-off after rank 10.
TopHashtagRanking ==
    (Ran /\ widgets /\ charts[7] # "none") =>
        LET list == hashtag_list(filtered_df)
            toks == Range(list)
            hc == hashtag_counts
            ranked == {hc[k][1] : k \in 1..Len(hc)}
        IN /\ \A t \in toks : t # <<>> /\ \A c \in 1..Len(t) : t[c] # " "
           /\ Len(hc) = (IF Cardinality(toks) < TopN THEN Cardinality(toks) ELSE TopN)
           /\ Cardinality(ranked) = Len(hc)
           /\ ranked \subseteq toks
           /\ \A k \in 1..Len(hc) : hc[k][2] = Occurrences(list, hc[k][1])
           /\ \A k, l \in 1..Len(hc) : k < l => Outranks(list, hc[k][1], hc[l][1])
           /\ \A t \in toks \ ranked :
                 \A k \in 1..Len(hc) : Outranks(list, hc[k][1], t)

TopHashtagWitness ==
    /\ Ran /\ widgets /\ selected_platforms # {}
    /\ Len(hashtag_counts) = TopN
    /\ hashtag_counts[1][2] = 2
    /\ hashtag_counts[TopN - 1][2] = hashtag_counts[TopN][2]
    /\ \E t \in Range(hashtag_list(filtered_df)) :
          /\ \A k \in 1..TopN : hashtag_counts[k][1] # t
          /\ Occurrences(hashtag_list(filtered_df), t) = hashtag_counts[TopN][2]

\* C9: in every render each of the eight chart regions ends with a figure or a
\* warning (a failing chart never keeps the later ones from rendering), and with
\* an empty filtered view every chart shows its warning.
ChartsFigureOrWarning ==
    (Ran /\ widgets) =>
        /\ \A i \in 1..Len(charts) : charts[i] \in {"figure", "warning"}
        /\ filtered_df = <<>> => \A i \in 1..Len(charts) : charts[i] = "warning"
        /\ footer

\* C10: every record of a loaded dataset has Hour in 0..23 and non-negative
\* Likes and Retweets.
LoadedRanges ==
    (Ran /\ ~df.none) =>
        \A i \in 1..Len(df.rows) :
            /\ df.rows[i].Hour \in 0..23
            /\ df.rows[i].Likes.v >= 0
            /\ df.rows[i].Retweets.v >= 0

====
